---- MODULE Spec2Model ----
(***************************************************************************)
(* Model of the migration runner (scripts/migrate.py) and of the staging   *)
(* -> prod promotion (scripts/promote_staging_prod.py) of kyoicn/sail.     *)
(*                                                                         *)
(* The database is a catalog of objects identified by <<schema, name,      *)
(* suffix>>.  `db` is the committed catalog, `work` the catalog as seen    *)
(* inside the transaction of the one connection that is writing, `txs`     *)
(* that transaction's status (psycopg2 connections run with autocommit     *)
(* off: the first statement opens a transaction, commit()/rollback() end   *)
(* it, and after a failed statement every further statement fails until    *)
(* rollback()).                                                            *)
(***************************************************************************)
EXTENDS Integers, Sequences, FiniteSets, TLC

\* ------------------------------------------------------------------ bounds
\* Largest row count a populated table starts with.
MaxRows == 1
\* The astronomical years tried are -MaxYear..MaxYear.
MaxYear == 2100

\* --------------------------------------------------------------- constants
\* promote_staging_prod.py:54 and :58
TablesWithUsers ==
  <<"events", "areas", "historical_periods", "period_areas", "schema_migrations", "users">>
tables == <<"events", "areas", "historical_periods", "period_areas", "schema_migrations">>
types == <<"granularity_type", "certainty_type">>
\* promote_staging_prod.py:178
SyncOrderChildFirst ==
  <<"period_areas", "areas", "historical_periods", "events", "schema_migrations">>
sync_order == <<"areas", "historical_periods", "period_areas", "events", "schema_migrations">>

SeqRange(s) == {s[i] : i \in 1..Len(s)}
TableNames == SeqRange(tables)
TypeNames == SeqRange(types)
FunctionNames == {"get_events"}
\* A table of the database that is in neither list (user accounts).
UnmanagedNames == {"users"}
Names == TableNames \cup TypeNames \cup FunctionNames \cup UnmanagedNames

\* migrate.py:180: the names argparse accepts for --instance
choices == {"prod", "dev", "staging"}
\* A name outside the choices, as an operator may type it at the prompt.
OtherName == "qa"
InstanceNames == choices \cup {OtherName}

\* migrate.py:188-192: suffix = "" for prod, "_" + instance otherwise
SuffixOf(instance) ==
  IF instance = "prod" THEN ""
  ELSE CASE instance = "dev" -> "_dev"
         [] instance = "staging" -> "_staging"
         [] OTHER -> "_qa"

Suffixes == {SuffixOf(i) : i \in InstanceNames}
Schemas == {"public", "staging", "backup"}
\* Suffixed names exist only where the runner creates them, in public.
ObjIds == {o \in Schemas \X Names \X Suffixes : o[1] = "public" \/ o[3] = ""}

\* ------------------------------------------------------------ change files
\* A change file's name is a string of digits; the directory holds three
\* files.  As strings "1" < "10" < "2", as numbers 1 < 2 < 10.
FileNames == {<<1>>, <<1, 0>>, <<2>>}

\* The tables a file creates (what scan_db_objects' re_table finds in it).
FileTables(f) ==
  CASE f = <<1>> -> {"areas", "historical_periods"}
    [] f = <<1, 0>> -> {"period_areas", "events"}
    [] OTHER -> {}

\* The routines a file defines (what re_func finds in it).
FileFunctions(f) == IF f = <<2>> THEN {"get_events"} ELSE {}

\* scan_db_objects: every table and function name any file declares.
ScanTables == UNION {FileTables(f) : f \in FileNames}
ScanFunctions == UNION {FileFunctions(f) : f \in FileNames}

\* Python's str/Path comparison: character by character, a proper prefix first.
RECURSIVE LexLess(_, _)
LexLess(a, b) ==
  IF a = <<>> THEN b # <<>>
  ELSE IF b = <<>> THEN FALSE
  ELSE IF Head(a) # Head(b) THEN Head(a) < Head(b)
  ELSE LexLess(Tail(a), Tail(b))

\* The value of a digit string, the order a numeric sort would use.
RECURSIVE NumVal(_)
NumVal(a) == IF a = <<>> THEN 0 ELSE 10 * NumVal(SubSeq(a, 1, Len(a) - 1)) + a[Len(a)]

\* The listings glob() may return: every order of the directory's files.
Perms(S) == {p \in [1..Cardinality(S) -> S] : \A i, j \in 1..Cardinality(S) : i # j => p[i] # p[j]}

\* sorted(): the arrangement of the listing in ascending order.
SortedNumeric(listing) ==
  CHOOSE p \in Perms(SeqRange(listing)) : \A i, j \in 1..Len(p) : i < j => NumVal(p[i]) < NumVal(p[j])
sorted(listing) ==
  CHOOSE p \in Perms(SeqRange(listing)) : \A i, j \in 1..Len(p) : i < j => LexLess(p[i], p[j])

\* ------------------------------------------------------------- the catalog
Absent == [ex |-> FALSE, gen |-> 0, rows |-> 0, vers |-> {}]
NewTable(g) == [ex |-> TRUE, gen |-> g, rows |-> 0, vers |-> {}]

\* transform_sql: a table or function name discovered by the scan gets the
\* suffix; the statement runs with the default search path, so in public.
TransformedNameUnsuffixed(name, suffix) == <<"public", name, "">>
TransformedName(name, suffix) ==
  IF name \in ScanTables \cup ScanFunctions THEN <<"public", name, suffix>>
  ELSE <<"public", name, "">>

\* ensure_migration_table: the ledger table's name, unqualified (public).
MigrationTable(instance) ==
  IF instance = "prod" THEN <<"public", "schema_migrations", "">>
  ELSE <<"public", "schema_migrations", SuffixOf(instance)>>

\* CREATE TABLE IF NOT EXISTS
CreateIfAbsent(cat, id, g) == IF cat[id].ex THEN cat ELSE [cat EXCEPT ![id] = NewTable(g)]

\* The objects a file's text creates once transformed for `suffix`.
FileObjects(f, suffix) == {TransformedName(n, suffix) : n \in FileTables(f) \cup FileFunctions(f)}

\* Executing a file's statements: guarded creates; a routine is (re)defined
\* against the tables its names resolve to now (gen: their generation).
RunFile(cat, f, suffix) ==
  [o \in ObjIds |->
     IF o \in FileObjects(f, suffix)
     THEN IF o[2] \in FunctionNames
          THEN [ex |-> TRUE, gen |-> cat[<<"public", "events", suffix>>].gen, rows |-> 0, vers |-> {}]
          ELSE IF cat[o].ex THEN cat[o] ELSE NewTable(1)
     ELSE cat[o]]

\* INSERT INTO <ledger> (version)
InsertVersionReplacing(cat, ledger, version) == [cat EXCEPT ![ledger].vers = {version}]
InsertVersion(cat, ledger, version) == [cat EXCEPT ![ledger].vers = @ \cup {version}]

\* get_applied_migrations: SELECT version FROM <ledger>
GetAppliedNone(cat, ledger) == {}
get_applied_migrations(cat, ledger) == cat[ledger].vers

\* ---------------------------------------------------------------- state
VARIABLES
  db,        \* the committed catalog
  work,      \* the catalog inside the writer's open transaction
  txs,       \* "idle" | "open" | "aborted"
  mpc,       \* migrate.py: where main() is
  mcaller,   \* "cli" | "promote": who started migrate.py
  margv,     \* sys.argv[1:] of the process
  minst,     \* instance
  applied,   \* the set get_applied_migrations returned
  mfiles,    \* migration_files
  midx,      \* position of the for loop in migration_files
  mcount,    \* new_migrations_count
  mrc,       \* the process's exit code
  mexec,     \* history: the files whose execution began in this run, in order
  mbegin,    \* history: every execution of this run began with no transaction pending
  prevInst,  \* history: the instance of the run that just completed with exit code 0
  prevLedger,\* history: that instance's ledger when that run completed
  ppc,       \* promote_staging_prod.py: where the script is
  prc,       \* its exit code
  pfi,       \* position of the function-redeploy loop in sql_files
  pstep,     \* position in the statements of the swap
  psi,       \* position of the sync loop in sync_order
  pre,       \* history: the committed catalog when promote_staging() was entered
  pfail,     \* history: the stage whose failure ended this promotion ("" if none)
  pmut,      \* history: this promotion has executed a statement that changes the catalog
  pinj,      \* history: a statement of this promotion failed for an outside reason
  pswapped,  \* history: this promotion committed its swap
  pconfirmed,\* history: the operator answered yes to this promotion
  psync,     \* history: the committed catalog when the sync stage was entered
  pretry,    \* history: an earlier promotion failed after committing its swap
  pyes,      \* history: the answer typed at this promotion's prompt spells yes
  seen,      \* what a concurrent reader last saw of the managed objects in public
  cpc,       \* clean_slate.py: where clean_slate() is
  cinsts,    \* requested_instances
  cidx,      \* position of the drop loop in target_schemas
  crc,       \* its exit code
  astro_year,\* time_normalizer.py: the argument of is_leap_year
  lcalled,   \* is_leap_year has returned
  lres,      \* what it returned
  rledger,   \* two runners, one instance: the rows of the ledger, committed
  reffects,  \* how many committed transactions executed each file
  rpc,       \* where each runner's main() is
  rapplied,  \* the set get_applied_migrations returned to each
  ridx,      \* each runner's position in migration_files
  rrc,       \* each runner's exit code
  rins,      \* the version each runner has inserted and not yet committed
  rdup       \* history: the runner's INSERT met a version already recorded

migVars == <<mpc, mcaller, margv, minst, applied, mfiles, midx, mcount, mrc, mexec, mbegin>>
histVars == <<prevInst, prevLedger>>
dbVars == <<db, work, txs>>
promCtl == <<ppc, prc, pfi, pstep, psi>>
promHist == <<pre, pfail, pmut, pinj, pswapped, pconfirmed, psync, pretry, pyes>>
promAll == <<promCtl, promHist, seen>>
cleanVars == <<cpc, cinsts, cidx, crc>>
leapVars == <<astro_year, lcalled, lres>>
raceVars == <<rledger, reffects, rpc, rapplied, ridx, rrc, rins, rdup>>
singleVars == <<dbVars, migVars, histVars, promAll, cleanVars, leapVars>>
vars == <<dbVars, migVars, histVars, promAll, cleanVars, leapVars, raceVars>>

\* What the writing connection sees.
Visible == IF txs = "idle" THEN db ELSE work

\* argparse (migrate.py:179-181): only --instance is declared, with choices.
\* An undeclared option or a value outside the choices ends the process with
\* exit code 2; no option at all leaves instance None.
ParseArgs(argv) ==
  IF argv = <<>> THEN [ok |-> TRUE, instance |-> ""]
  ELSE IF Len(argv) = 2 /\ argv[1] = "--instance" /\ argv[2] \in choices
       THEN [ok |-> TRUE, instance |-> argv[2]]
  ELSE [ok |-> FALSE, instance |-> ""]

\* The command lines an operator may give.
\* The spec's way to clear a ledger entry: --reset <version>.
ResetArgvs == {<<"--instance", i, "--reset", f>> : i \in choices, f \in FileNames}
CliArgvs ==
  {<<>>} \cup {<<"--instance", v>> : v \in InstanceNames} \cup {<<"--env", "dev">>} \cup ResetArgvs

\* main(), migrate.py:178-186: parse the arguments, prompt when no instance.
MigBegin(argv, typed, caller) ==
  /\ mpc = "idle"
  /\ LET a == ParseArgs(argv) IN
       /\ mpc' = IF a.ok THEN "ensure" ELSE "exit"
       /\ mrc' = IF a.ok THEN 0 ELSE 2
       /\ minst' = IF ~a.ok THEN "" ELSE IF a.instance = "" THEN typed ELSE a.instance
  /\ mcaller' = caller
  /\ margv' = argv
  /\ applied' = {} /\ mfiles' = <<>> /\ midx' = 1 /\ mcount' = 0
  /\ mexec' = <<>> /\ mbegin' = TRUE
  /\ UNCHANGED dbVars

\* main(), migrate.py:197-200: ensure_migration_table, then commit.
MigEnsure ==
  /\ mpc = "ensure"
  /\ db' = CreateIfAbsent(Visible, MigrationTable(minst), 1)
  /\ work' = db'
  /\ txs' = "idle"
  /\ mpc' = "list"
  /\ UNCHANGED <<mcaller, margv, minst, applied, mfiles, midx, mcount, mrc, mexec, mbegin, histVars, promAll, cleanVars, leapVars, raceVars>>

\* main(), migrate.py:202-221: read the ledger, list and sort the files.
MigList ==
  /\ mpc = "list"
  /\ applied' = get_applied_migrations(Visible, MigrationTable(minst))
  /\ \E listing \in Perms(FileNames) : mfiles' = sorted(listing)
  /\ midx' = 1
  /\ mcount' = 0
  /\ mpc' = "loop"
  /\ UNCHANGED <<dbVars, mcaller, margv, minst, mrc, mexec, mbegin, histVars, promAll, cleanVars, leapVars, raceVars>>

\* main(), migrate.py:223-225: a version already applied is passed over.
MigSkip ==
  /\ mpc = "loop"
  /\ midx <= Len(mfiles)
  /\ mfiles[midx] \in applied
  /\ midx' = midx + 1
  /\ UNCHANGED <<dbVars, mpc, mcaller, margv, minst, applied, mfiles, mcount, mrc, mexec, mbegin, histVars, promAll, cleanVars, leapVars, raceVars>>

\* main(), migrate.py:226-234: transform the file, execute it and insert its
\* version, all in the connection's transaction.  A statement of the file may
\* fail (sqlOk); the INSERT fails on a version the ledger already holds.
MigExec ==
  /\ mpc = "loop"
  /\ midx <= Len(mfiles)
  /\ mfiles[midx] \notin applied
  /\ LET version == mfiles[midx]
         ledger == MigrationTable(minst)
         ran == RunFile(Visible, version, SuffixOf(minst))
     IN \E sqlOk \in BOOLEAN :
          IF sqlOk /\ version \notin ran[ledger].vers
          THEN /\ work' = InsertVersion(ran, ledger, version)
               /\ txs' = "open"
               /\ mpc' = "commit"
          ELSE /\ work' = ran
               /\ txs' = "aborted"
               /\ mpc' = "failed"
  /\ mexec' = Append(mexec, mfiles[midx])
  /\ mbegin' = (mbegin /\ txs = "idle")
  /\ UNCHANGED <<db, mcaller, margv, minst, applied, mfiles, midx, mcount, mrc, histVars, promAll, cleanVars, leapVars, raceVars>>

\* main(), migrate.py:235-237: conn.commit(), count the file, next file.
MigCommitAtEnd ==
  /\ mpc = "commit"
  /\ mcount' = mcount + 1
  /\ midx' = midx + 1
  /\ mpc' = "loop"
  /\ UNCHANGED <<dbVars, mcaller, margv, minst, applied, mfiles, mrc, mexec, mbegin, histVars, promAll, cleanVars, leapVars, raceVars>>
MigCommit ==
  /\ mpc = "commit"
  /\ db' = work
  /\ work' = work
  /\ txs' = "idle"
  /\ mcount' = mcount + 1
  /\ midx' = midx + 1
  /\ mpc' = "loop"
  /\ UNCHANGED <<mcaller, margv, minst, applied, mfiles, mrc, mexec, mbegin, histVars, promAll, cleanVars, leapVars, raceVars>>

\* main(), migrate.py:238-242: conn.rollback(), sys.exit(1).
MigRollbackAsCommit ==
  /\ mpc = "failed"
  /\ db' = work
  /\ work' = work
  /\ txs' = "idle"
  /\ mrc' = 1
  /\ mpc' = "exit"
  /\ UNCHANGED <<mcaller, margv, minst, applied, mfiles, midx, mcount, mexec, mbegin, histVars, promAll, cleanVars, leapVars, raceVars>>
MigRollback ==
  /\ mpc = "failed"
  /\ work' = db
  /\ txs' = "idle"
  /\ mrc' = 1
  /\ mpc' = "exit"
  /\ UNCHANGED <<db, mcaller, margv, minst, applied, mfiles, midx, mcount, mexec, mbegin, histVars, promAll, cleanVars, leapVars, raceVars>>

\* main(), migrate.py:244-250: the loop is over; the process ends with code 0.
\* Closing the connection ends any transaction still open without committing.
MigFinish ==
  /\ mpc = "loop"
  /\ midx > Len(mfiles)
  /\ work' = db
  /\ txs' = "idle"
  /\ mrc' = 0
  /\ mpc' = "exit"
  /\ UNCHANGED <<db, mcaller, margv, minst, applied, mfiles, midx, mcount, mexec, mbegin, histVars, promAll, cleanVars, leapVars, raceVars>>

\* python migrate.py ...: an operator starts the runner from the command line.
MigCli(argv, typed) ==
  /\ ppc = "idle"
  /\ argv # <<>> => typed = "prod"
  /\ MigBegin(argv, typed, "cli")
  /\ UNCHANGED <<histVars, promAll, cleanVars, leapVars, raceVars>>

\* The process started from the command line has ended.
MigReturn ==
  /\ mpc = "exit"
  /\ mcaller = "cli"
  /\ mpc' = "idle"
  /\ prevInst' = IF mrc = 0 THEN minst ELSE "none"
  /\ prevLedger' = IF mrc = 0 THEN db[MigrationTable(minst)].vers ELSE {}
  /\ UNCHANGED <<dbVars, mcaller, margv, minst, applied, mfiles, midx, mcount, mrc, mexec, mbegin, promAll, cleanVars, leapVars, raceVars>>

\* ------------------------------------------------------------- promotion
Managed == TableNames \cup TypeNames
Pub(n) == <<"public", n, "">>
Stg(n) == <<"staging", n, "">>
Bak(n) == <<"backup", n, "">>

\* ALTER ... SET SCHEMA
Move(cat, src, dst) == [cat EXCEPT ![dst] = cat[src], ![src] = Absent]

\* The statements of the swap, promote_staging_prod.py:121-144, in order:
\* A1 types public -> backup, A2 tables public -> backup,
\* B1 types staging -> public, B2 tables staging -> public.
SwapOpsTablesFirst ==
  [i \in 1..Len(tables) |-> [ph |-> "A", n |-> tables[i]]]
  \o [i \in 1..Len(types) |-> [ph |-> "A", n |-> types[i]]]
  \o [i \in 1..Len(tables) |-> [ph |-> "B", n |-> tables[i]]]
  \o [i \in 1..Len(types) |-> [ph |-> "B", n |-> types[i]]]
SwapOps ==
  [i \in 1..Len(types) |-> [ph |-> "A", n |-> types[i]]]
  \o [i \in 1..Len(tables) |-> [ph |-> "A", n |-> tables[i]]]
  \o [i \in 1..Len(types) |-> [ph |-> "B", n |-> types[i]]]
  \o [i \in 1..Len(tables) |-> [ph |-> "B", n |-> tables[i]]]

\* One statement group of the swap on catalog cat.  A: if to_regtype /
\* to_regclass finds public.n, DROP backup.n IF EXISTS CASCADE and move
\* public.n to backup.  B: ALTER staging.n SET SCHEMA public, an error when
\* staging.n does not exist or public.n does.
SwapOpOkUnguarded(cat, op) ==
  IF op.ph = "A" THEN cat[Pub(op.n)].ex ELSE (cat[Stg(op.n)].ex /\ ~cat[Pub(op.n)].ex)
SwapOpOk(cat, op) == op.ph = "A" \/ (cat[Stg(op.n)].ex /\ ~cat[Pub(op.n)].ex)
SwapOpDoDropsProd(cat, op) ==
  IF op.ph = "A"
  THEN IF cat[Pub(op.n)].ex THEN [cat EXCEPT ![Pub(op.n)] = Absent] ELSE cat
  ELSE Move(cat, Stg(op.n), Pub(op.n))
SwapOpDo(cat, op) ==
  IF op.ph = "A"
  THEN IF cat[Pub(op.n)].ex THEN Move(cat, Pub(op.n), Bak(op.n)) ELSE cat
  ELSE Move(cat, Stg(op.n), Pub(op.n))

\* str.lower() of the answers an operator may type.
Answers == {"yes", "YES", "no", ""}
\* The answers that spell yes, in whatever case.
YesAnswers == {"yes", "YES"}
LowerAcceptsEmpty(c) == IF c \in {"YES", ""} THEN "yes" ELSE c
Lower(c) == IF c = "YES" THEN "yes" ELSE c

\* Files whose text contains CREATE OR REPLACE FUNCTION.
DefinesFunction(f) == FileFunctions(f) # {}

\* __main__ and promote_staging(), promote_staging_prod.py:239-244, 44-78:
\* ask, connect, SET search_path (which opens the connection's transaction).
PromStart(choice) ==
  /\ ppc = "idle"
  /\ mpc = "idle"
  /\ IF Lower(choice) = "yes"
     THEN /\ ppc' = "redeploy"
          /\ txs' = "open"
          /\ work' = db
          /\ pre' = db
     ELSE /\ ppc' = "exit"
          /\ UNCHANGED <<txs, work, pre>>
  /\ prc' = 0
  /\ pfi' = 1 /\ pstep' = 1 /\ psi' = 1
  /\ pfail' = "" /\ pmut' = FALSE /\ pinj' = FALSE /\ pswapped' = FALSE
  /\ pconfirmed' = (Lower(choice) = "yes")
  /\ pretry' = (pretry \/ (pswapped /\ prc # 0))
  /\ pyes' = (choice \in YesAnswers)
  /\ psync' = psync
  /\ prevInst' = "none" /\ prevLedger' = {}
  /\ seen' = [taken |-> FALSE, view |-> [n \in Managed |-> Absent]]
  /\ UNCHANGED <<db, migVars, cleanVars, leapVars, raceVars>>

\* promote_staging_prod.py:69-95: each file, in sorted order, that defines a
\* function is executed as it is (no transform: in public).  An error is
\* caught and reported as a warning; it leaves the transaction aborted, and
\* in an aborted transaction every statement is an error.
PromRedeploy ==
  /\ ppc = "redeploy"
  /\ \E listing \in Perms(FileNames) :
       LET sql_files == sorted(listing) IN
         IF pfi > Len(sql_files)
         THEN /\ ppc' = "check"
              /\ UNCHANGED <<pfi, work, txs, pmut, pinj>>
         ELSE /\ pfi' = pfi + 1
              /\ ppc' = ppc
              /\ IF ~DefinesFunction(sql_files[pfi])
                 THEN UNCHANGED <<work, txs, pmut, pinj>>
                 ELSE IF txs = "aborted"
                 THEN UNCHANGED <<work, txs, pmut, pinj>>
                 ELSE \E sqlOk \in BOOLEAN :
                        IF sqlOk
                        THEN /\ work' = RunFile(work, sql_files[pfi], "")
                             /\ pmut' = TRUE
                             /\ UNCHANGED <<txs, pinj>>
                        ELSE /\ txs' = "aborted"
                             /\ pinj' = TRUE
                             /\ UNCHANGED <<work, pmut>>
  /\ UNCHANGED <<db, migVars, histVars, prc, pstep, psi, pre, psync, pretry, pyes, pfail, pswapped, pconfirmed, seen, cleanVars, leapVars, raceVars>>

\* promote_staging_prod.py:104-116: every table of the list must be found in
\* staging, else an exception; then BEGIN (a no-op in the transaction already
\* open) and CREATE SCHEMA IF NOT EXISTS backup.
PromCheck ==
  /\ ppc = "check"
  /\ IF txs = "aborted" \/ \E t \in TableNames : ~work[Stg(t)].ex
     THEN /\ ppc' = "failed"
          /\ pfail' = "check"
     ELSE /\ ppc' = "swap"
          /\ pfail' = pfail
  /\ UNCHANGED <<dbVars, migVars, histVars, prc, pfi, pstep, psi, pre, psync, pretry, pyes, pmut, pinj, pswapped, pconfirmed, seen, cleanVars, leapVars, raceVars>>

\* promote_staging_prod.py:121-144: the next statement group of the swap,
\* inside the transaction.  It may also fail for an outside reason (a lock
\* timeout, a lost connection).
PromSwapStepAutocommit ==
  /\ ppc = "swap"
  /\ pstep <= Len(SwapOps)
  /\ \E sqlOk \in BOOLEAN :
       IF sqlOk /\ SwapOpOk(work, SwapOps[pstep])
       THEN /\ work' = SwapOpDo(work, SwapOps[pstep])
            /\ db' = work'
            /\ pstep' = pstep + 1
            /\ pmut' = TRUE
            /\ UNCHANGED <<txs, ppc, pfail, pinj>>
       ELSE /\ txs' = "aborted"
            /\ ppc' = "failed"
            /\ pfail' = "swap"
            /\ pinj' = (pinj \/ ~sqlOk)
            /\ UNCHANGED <<db, work, pstep, pmut>>
  /\ UNCHANGED <<migVars, histVars, prc, pfi, psi, pre, psync, pretry, pyes, pswapped, pconfirmed, seen, cleanVars, leapVars, raceVars>>
PromSwapStep ==
  /\ ppc = "swap"
  /\ pstep <= Len(SwapOps)
  /\ \E sqlOk \in BOOLEAN :
       IF sqlOk /\ SwapOpOk(work, SwapOps[pstep])
       THEN /\ work' = SwapOpDo(work, SwapOps[pstep])
            /\ pstep' = pstep + 1
            /\ pmut' = TRUE
            /\ UNCHANGED <<txs, ppc, pfail, pinj>>
       ELSE /\ txs' = "aborted"
            /\ ppc' = "failed"
            /\ pfail' = "swap"
            /\ pinj' = (pinj \/ ~sqlOk)
            /\ UNCHANGED <<work, pstep, pmut>>
  /\ UNCHANGED <<db, migVars, histVars, prc, pfi, psi, pre, psync, pretry, pyes, pswapped, pconfirmed, seen, cleanVars, leapVars, raceVars>>

\* promote_staging_prod.py:146-148: conn.commit().
PromSwapCommit ==
  /\ ppc = "swap"
  /\ pstep > Len(SwapOps)
  /\ db' = work
  /\ work' = work
  /\ txs' = "idle"
  /\ pswapped' = TRUE
  /\ ppc' = "mig_prod"
  /\ UNCHANGED <<migVars, histVars, prc, pfi, pstep, psi, pre, psync, pretry, pyes, pfail, pmut, pinj, pconfirmed, seen, cleanVars, leapVars, raceVars>>

\* promote_staging_prod.py:155-159 and 166-168: subprocess.check_call of
\* migrate.py with the arguments --env prod, then --env staging.
MigrateArgv(stage) == <<"--env", IF stage = "mig_prod" THEN "prod" ELSE "staging">>
PromMigrate ==
  /\ ppc \in {"mig_prod", "mig_staging"}
  /\ MigBegin(MigrateArgv(ppc), "prod", "promote")
  /\ ppc' = IF ppc = "mig_prod" THEN "wait_prod" ELSE "wait_staging"
  /\ UNCHANGED <<histVars, prc, pfi, pstep, psi, promHist, seen, cleanVars, leapVars, raceVars>>

\* promote_staging_prod.py:159-161 and 168-170: check_call returns, or raises
\* CalledProcessError on a non-zero exit code, which becomes an exception.
PromMigrateReturn ==
  /\ ppc \in {"wait_prod", "wait_staging"}
  /\ mpc = "exit"
  /\ mcaller = "promote"
  /\ mpc' = "idle"
  /\ IF mrc # 0
     THEN /\ ppc' = "failed"
          /\ pfail' = IF ppc = "wait_prod" THEN "mig_prod" ELSE "mig_staging"
     ELSE /\ ppc' = IF ppc = "wait_prod" THEN "mig_staging" ELSE "sync"
          /\ pfail' = pfail
  /\ psync' = IF mrc = 0 /\ ppc = "wait_staging" THEN db ELSE psync
  /\ UNCHANGED <<dbVars, mcaller, margv, minst, applied, mfiles, midx, mcount, mrc, mexec, mbegin,
                 histVars, prc, pfi, pstep, psi, pre, pretry, pyes, pmut, pinj, pswapped, pconfirmed, seen, cleanVars, leapVars, raceVars>>

\* Tables with a foreign key into t (period_areas references areas and
\* historical_periods): TRUNCATE t CASCADE empties them too.
Referencing(t) == IF t \in {"areas", "historical_periods"} THEN {"period_areas"} ELSE {}

\* Tables with the columns granularity and certainty, which the sync casts
\* to staging.granularity_type and staging.certainty_type.
EnumTables == {"events"}

Truncate(cat, t) ==
  [o \in ObjIds |->
     IF o = Stg(t) \/ (\E d \in Referencing(t) : o = Stg(d))
     THEN [cat[o] EXCEPT !.rows = 0, !.vers = {}]
     ELSE cat[o]]

\* promote_staging_prod.py:180-226: the next table of sync_order: TRUNCATE
\* staging.t CASCADE, read public.t's columns (none: warn and continue),
\* INSERT INTO staging.t SELECT ... FROM public.t.
PromSyncStep ==
  /\ ppc = "sync"
  /\ psi <= Len(sync_order)
  /\ LET t == sync_order[psi]
         cat == Visible
     IN IF t \notin TableNames
        THEN /\ psi' = psi + 1
             /\ UNCHANGED <<work, txs, ppc, pfail, pmut, pinj>>
        ELSE \E sqlOk \in BOOLEAN :
          IF ~sqlOk \/ ~cat[Stg(t)].ex
             \/ (cat[Pub(t)].ex /\ t \in EnumTables /\ \E ty \in TypeNames : ~cat[Stg(ty)].ex)
          THEN /\ txs' = "aborted"
               /\ ppc' = "failed"
               /\ pfail' = "sync"
               /\ pinj' = (pinj \/ ~sqlOk)
               /\ UNCHANGED <<work, psi, pmut>>
          ELSE /\ work' = IF cat[Pub(t)].ex
                          THEN [Truncate(cat, t) EXCEPT ![Stg(t)].rows = cat[Pub(t)].rows,
                                                        ![Stg(t)].vers = cat[Pub(t)].vers]
                          ELSE Truncate(cat, t)
               /\ txs' = "open"
               /\ psi' = psi + 1
               /\ pmut' = TRUE
               /\ UNCHANGED <<ppc, pfail, pinj>>
  /\ UNCHANGED <<db, migVars, histVars, prc, pfi, pstep, pre, psync, pretry, pyes, pswapped, pconfirmed, seen, cleanVars, leapVars, raceVars>>

\* promote_staging_prod.py:228-229: conn.commit(); the promotion succeeded.
PromSyncCommit ==
  /\ ppc = "sync"
  /\ psi > Len(sync_order)
  /\ db' = Visible
  /\ work' = db'
  /\ txs' = "idle"
  /\ prc' = 0
  /\ ppc' = "exit"
  /\ UNCHANGED <<migVars, histVars, pfi, pstep, psi, promHist, seen, cleanVars, leapVars, raceVars>>

\* promote_staging_prod.py:231-237: conn.rollback(), sys.exit(1).
PromFailCommits ==
  /\ ppc = "failed"
  /\ db' = work
  /\ work' = work
  /\ txs' = "idle"
  /\ prc' = 1
  /\ ppc' = "exit"
  /\ UNCHANGED <<migVars, histVars, pfi, pstep, psi, promHist, seen, cleanVars, leapVars, raceVars>>
PromFailExitsZero ==
  /\ ppc = "failed"
  /\ work' = db
  /\ txs' = "idle"
  /\ prc' = 0
  /\ ppc' = "exit"
  /\ UNCHANGED <<db, migVars, histVars, pfi, pstep, psi, promHist, seen, cleanVars, leapVars, raceVars>>
PromFail ==
  /\ ppc = "failed"
  /\ work' = db
  /\ txs' = "idle"
  /\ prc' = 1
  /\ ppc' = "exit"
  /\ UNCHANGED <<db, migVars, histVars, pfi, pstep, psi, promHist, seen, cleanVars, leapVars, raceVars>>

\* The promote process has ended.
PromReturn ==
  /\ ppc = "exit"
  /\ ppc' = "idle"
  /\ UNCHANGED <<dbVars, migVars, histVars, prc, pfi, pstep, psi, promHist, seen, cleanVars, leapVars, raceVars>>

\* Another session reads the managed objects of public: it sees what is
\* committed.
View(cat) == [n \in Managed |-> cat[Pub(n)]]
Read ==
  /\ ppc \in {"swap", "failed", "mig_prod"}
  /\ seen' = [taken |-> TRUE, view |-> View(db)]
  /\ UNCHANGED <<dbVars, migVars, histVars, promCtl, promHist, cleanVars, leapVars, raceVars>>

\* ---------------------------------------------- where the others look
\* BasePopulator.get_table_name, populator_base.py:89-91: "<instance>".<table>
get_table_name(instance, table) == <<instance, table, "">>

\* promote_staging_prod.py:104-110, 121-144: staging's tables are staging.<t>,
\* prod's are public.<t>.
PromoteTable(instance, table) == IF instance = "prod" THEN Pub(table) ELSE Stg(table)

\* clean_slate.py:59-61, 84-86: the schema dropped for an instance is the
\* schema of that name.
CleanSlateSchema(instance) == instance

\* ------------------------------------------------------------ clean_slate
\* clean_slate.py:48
valid_choices == {"dev", "staging", "prod"}

\* The values of --instance an operator may give, split at the commas.
CleanRequests ==
  {<<i>> : i \in InstanceNames} \cup {<<"dev", "staging">>, <<"staging", "prod">>}

\* What the operator may type at the confirmation prompt.
Confirmations == {<<"delete", l>> : l \in CleanRequests} \cup {<<"yes", <<>>>>}

\* DROP SCHEMA IF EXISTS s CASCADE: every object of the schema goes.
DropSchema(cat, s) == [o \in ObjIds |-> IF o[1] = s THEN Absent ELSE cat[o]]

\* clean_slate(), clean_slate.py:41-56: parse --instance, validate each name,
\* connect with autocommit on.
CleanStart(req) ==
  /\ cpc = "idle" /\ ppc = "idle" /\ mpc = "idle"
  /\ cinsts' = req
  /\ cidx' = 1
  /\ IF \E k \in 1..Len(req) : req[k] \notin valid_choices
     THEN cpc' = "exit" /\ crc' = 1
     ELSE cpc' = "confirm" /\ crc' = 0
  /\ UNCHANGED <<dbVars, migVars, histVars, promAll, leapVars, raceVars>>

\* clean_slate.py:70-78: the confirmation must read "delete <instances>",
\* else "Aborted." and return.
CleanConfirm(typed) ==
  /\ cpc = "confirm"
  /\ cpc' = IF typed = <<"delete", cinsts>> THEN "drop" ELSE "exit"
  /\ UNCHANGED <<dbVars, migVars, histVars, promAll, leapVars, raceVars, cinsts, cidx, crc>>

\* clean_slate.py:84-86: DROP SCHEMA IF EXISTS <instance> CASCADE, committed
\* at once (autocommit).
CleanDrop ==
  /\ cpc = "drop"
  /\ cidx <= Len(cinsts)
  /\ db' = DropSchema(db, CleanSlateSchema(cinsts[cidx]))
  /\ work' = db'
  /\ cidx' = cidx + 1
  /\ UNCHANGED <<txs, migVars, histVars, promAll, leapVars, raceVars, cpc, cinsts, crc>>

\* clean_slate.py:88-102: CREATE SCHEMA IF NOT EXISTS public, grants and the
\* PostGIS extension; the objects of the catalog are not touched.
CleanEnsurePublic ==
  /\ cpc = "drop"
  /\ cidx > Len(cinsts)
  /\ cpc' = "exit"
  /\ UNCHANGED <<dbVars, migVars, histVars, promAll, leapVars, raceVars, cinsts, cidx, crc>>

\* The clean_slate process has ended.
CleanReturn ==
  /\ cpc = "exit"
  /\ cpc' = "idle"
  /\ UNCHANGED <<dbVars, migVars, histVars, promAll, leapVars, raceVars, cinsts, cidx, crc>>

\* -------------------------------------------------------- time_normalizer
Years == (0 - MaxYear)..MaxYear

\* is_leap_year, time_normalizer.py:4-9.  Python's % with a positive divisor
\* gives a result in 0..divisor-1 for negative numbers too, as TLA+'s does.
IsLeapYearNo400(y) == y % 4 = 0 /\ y % 100 # 0
is_leap_year(y) == (y % 4 = 0 /\ y % 100 # 0) \/ (y % 400 = 0)

\* A call of is_leap_year with the argument chosen at the start.
IsLeapYearCall ==
  /\ ~lcalled
  /\ lres' = is_leap_year(astro_year)
  /\ lcalled' = TRUE
  /\ UNCHANGED <<astro_year, dbVars, migVars, histVars, promAll, cleanVars, raceVars>>

\* ------------------------------------------- two runners, one instance
\* Two migrate.py processes started for the same instance, each on its own
\* connection.  A transaction sees what is committed and what it did itself.
Procs == {1, 2}
NoVersion == <<>>
migration_files == sorted(CHOOSE l \in Perms(FileNames) : TRUE)
Count(seq, v) == Cardinality({i \in 1..Len(seq) : seq[i] = v})

\* INSERT INTO <ledger> (version) on a table whose version column is the
\* PRIMARY KEY (migrate.py:40-45, 52-53): a version already there is an error.
record_migration_no_key(ledger, version) == "ok"
record_migration(ledger, version) == IF Count(ledger, version) > 0 THEN "duplicate" ELSE "ok"

\* main(), migrate.py:178-200: arguments, connection, ledger table, commit.
RaceStart(p) ==
  /\ rpc[p] = "idle"
  /\ rpc' = [rpc EXCEPT ![p] = "list"]
  /\ rrc' = [rrc EXCEPT ![p] = 0]
  /\ rdup' = [rdup EXCEPT ![p] = FALSE]
  /\ UNCHANGED <<singleVars, rledger, reffects, rapplied, ridx, rins>>

\* migrate.py:202-221
RaceList(p) ==
  /\ rpc[p] = "list"
  /\ rapplied' = [rapplied EXCEPT ![p] = SeqRange(rledger)]
  /\ ridx' = [ridx EXCEPT ![p] = 1]
  /\ rpc' = [rpc EXCEPT ![p] = "loop"]
  /\ UNCHANGED <<singleVars, rledger, reffects, rrc, rins, rdup>>

\* migrate.py:223-225
RaceSkip(p) ==
  /\ rpc[p] = "loop"
  /\ ridx[p] <= Len(migration_files)
  /\ migration_files[ridx[p]] \in rapplied[p]
  /\ ridx' = [ridx EXCEPT ![p] = @ + 1]
  /\ UNCHANGED <<singleVars, rledger, reffects, rpc, rapplied, rrc, rins, rdup>>

\* migrate.py:226-233: the file's statements run in the runner's transaction;
\* one of them may fail.
RaceExec(p) ==
  /\ rpc[p] = "loop"
  /\ ridx[p] <= Len(migration_files)
  /\ migration_files[ridx[p]] \notin rapplied[p]
  /\ \E sqlOk \in BOOLEAN : rpc' = [rpc EXCEPT ![p] = IF sqlOk THEN "record" ELSE "failed"]
  /\ UNCHANGED <<singleVars, rledger, reffects, rapplied, ridx, rrc, rins, rdup>>

\* migrate.py:234: record_migration.  While another transaction holds an
\* uncommitted row with the same key the INSERT waits for it to end.
RaceRecord(p) ==
  /\ rpc[p] = "record"
  /\ LET version == migration_files[ridx[p]] IN
       /\ \A q \in Procs \ {p} : rins[q] # version
       /\ IF record_migration(rledger, version) = "ok"
          THEN /\ rins' = [rins EXCEPT ![p] = version]
               /\ rpc' = [rpc EXCEPT ![p] = "commit"]
               /\ rdup' = rdup
          ELSE /\ rdup' = [rdup EXCEPT ![p] = TRUE]
               /\ rpc' = [rpc EXCEPT ![p] = "failed"]
               /\ rins' = rins
  /\ UNCHANGED <<singleVars, rledger, reffects, rapplied, ridx, rrc>>

\* migrate.py:235-237: conn.commit()
RaceCommit(p) ==
  /\ rpc[p] = "commit"
  /\ rledger' = Append(rledger, rins[p])
  /\ reffects' = [reffects EXCEPT ![rins[p]] = @ + 1]
  /\ rins' = [rins EXCEPT ![p] = NoVersion]
  /\ ridx' = [ridx EXCEPT ![p] = @ + 1]
  /\ rpc' = [rpc EXCEPT ![p] = "loop"]
  /\ UNCHANGED <<singleVars, rapplied, rrc, rdup>>

\* migrate.py:238-242: conn.rollback(), sys.exit(1)
RaceRollback(p) ==
  /\ rpc[p] = "failed"
  /\ rins' = [rins EXCEPT ![p] = NoVersion]
  /\ rrc' = [rrc EXCEPT ![p] = 1]
  /\ rpc' = [rpc EXCEPT ![p] = "exit"]
  /\ UNCHANGED <<singleVars, rledger, reffects, rapplied, ridx, rdup>>

\* migrate.py:244-250
RaceFinish(p) ==
  /\ rpc[p] = "loop"
  /\ ridx[p] > Len(migration_files)
  /\ rrc' = [rrc EXCEPT ![p] = 0]
  /\ rpc' = [rpc EXCEPT ![p] = "exit"]
  /\ UNCHANGED <<singleVars, rledger, reffects, rapplied, ridx, rins, rdup>>

\* The process has ended; the operator may start it again.
RaceReturn(p) ==
  /\ rpc[p] = "exit"
  /\ rpc' = [rpc EXCEPT ![p] = "idle"]
  /\ UNCHANGED <<singleVars, rledger, reffects, rapplied, ridx, rrc, rins, rdup>>

RaceNext ==
  \/ \E p \in Procs : RaceStart(p)
  \/ \E p \in Procs : RaceList(p)
  \/ \E p \in Procs : RaceSkip(p)
  \/ \E p \in Procs : RaceExec(p)
  \/ \E p \in Procs : RaceRecord(p)
  \/ \E p \in Procs : RaceCommit(p)
  \/ \E p \in Procs : RaceRollback(p)
  \/ \E p \in Procs : RaceFinish(p)
  \/ \E p \in Procs : RaceReturn(p)

\* ------------------------------------------------------------ initial state
\* The first k files in apply order.
FirstFiles(k) == {f \in FileNames : Cardinality({g \in FileNames : LexLess(g, f)}) < k}

\* A catalog in which prod (public) has had its first k files applied and
\* holds r rows per table, the staging schema holds the managed objects of
\* stagingHas with s rows per table and a full ledger, and backup holds an
\* older generation or nothing.  The unmanaged table is in prod and in
\* staging, with rows.
InitialCatalog(k, r, stagingHas, s, oldBackup) ==
  [o \in ObjIds |->
     IF o[3] # "" THEN Absent
     ELSE IF o[2] \in UnmanagedNames
     THEN IF o[1] = "backup" THEN Absent
          ELSE [ex |-> TRUE, gen |-> IF o[1] = "public" THEN 1 ELSE 2, rows |-> MaxRows, vers |-> {}]
     ELSE IF o[1] = "public"
     THEN IF o[2] = "schema_migrations"
          THEN IF k > 0 THEN [ex |-> TRUE, gen |-> 1, rows |-> 0, vers |-> FirstFiles(k)] ELSE Absent
          ELSE IF o[2] \in TypeNames
          THEN IF k > 0 THEN NewTable(1) ELSE Absent
          ELSE IF \E f \in FirstFiles(k) : o[2] \in FileTables(f)
          THEN [ex |-> TRUE, gen |-> 1, rows |-> r, vers |-> {}]
          ELSE IF \E f \in FirstFiles(k) : o[2] \in FileFunctions(f)
          THEN NewTable(1)
          ELSE Absent
     ELSE IF o[1] = "staging"
     THEN IF o[2] \notin stagingHas THEN Absent
          ELSE IF o[2] = "schema_migrations"
          THEN [ex |-> TRUE, gen |-> 2, rows |-> 0, vers |-> FileNames]
          ELSE IF o[2] \in TypeNames THEN NewTable(2)
          ELSE [ex |-> TRUE, gen |-> 2, rows |-> s, vers |-> {}]
     ELSE IF oldBackup /\ o[2] \in Managed
          THEN [ex |-> TRUE, gen |-> 0, rows |-> 0, vers |-> {}]
          ELSE Absent]

StagingShapes == {Managed, {}} \cup {Managed \ {n} : n \in Managed}

InitCore ==
  /\ work = db
  /\ txs = "idle"
  /\ mpc = "idle" /\ mcaller = "cli" /\ margv = <<>> /\ minst = "" /\ applied = {} /\ mfiles = <<>>
  /\ midx = 1 /\ mcount = 0 /\ mrc = 0 /\ mexec = <<>> /\ mbegin = TRUE
  /\ prevInst = "none" /\ prevLedger = {}
  /\ ppc = "idle" /\ prc = 0 /\ pfi = 1 /\ pstep = 1 /\ psi = 1
  /\ pre = db /\ pfail = "" /\ pmut = FALSE /\ pinj = FALSE /\ pswapped = FALSE
  /\ pconfirmed = FALSE /\ psync = db /\ pretry = FALSE /\ pyes = FALSE
  /\ seen = [taken |-> FALSE, view |-> [n \in Managed |-> Absent]]
  /\ cpc = "idle" /\ cinsts = <<>> /\ cidx = 1 /\ crc = 0

InitRaceIdle ==
  /\ rledger = <<>>
  /\ reffects = [f \in FileNames |-> 0]
  /\ rpc = [p \in Procs |-> "idle"]
  /\ rapplied = [p \in Procs |-> {}]
  /\ ridx = [p \in Procs |-> 1]
  /\ rrc = [p \in Procs |-> 0]
  /\ rins = [p \in Procs |-> NoVersion]
  /\ rdup = [p \in Procs |-> FALSE]

InitRest ==
  /\ InitCore
  /\ InitRaceIdle
  /\ astro_year = 0 /\ lcalled = FALSE /\ lres = FALSE

\* Two runners for an instance whose ledger is empty.
InitRace ==
  /\ db = InitialCatalog(0, 0, {}, 0, FALSE)
  /\ InitRest

\* is_leap_year about to be called with any year of the range; the database
\* plays no part.
InitLeap ==
  /\ db = InitialCatalog(0, 0, {}, 0, FALSE)
  /\ InitCore
  /\ InitRaceIdle
  /\ astro_year \in Years /\ lcalled = FALSE /\ lres = FALSE

LeapNext == IsLeapYearCall

Init ==
  /\ \E k \in {0, Cardinality(FileNames)}, r \in 0..MaxRows, shape \in StagingShapes,
        s \in 0..MaxRows, oldBackup \in BOOLEAN :
       /\ k = 0 => r = 0
       /\ shape = {} => s = 0
       /\ db = InitialCatalog(k, r, shape, s, oldBackup)
  /\ InitRest

\* The runner alone, on a database that holds only what earlier runs for prod
\* created.
InitMigrate ==
  /\ \E k \in 0..Cardinality(FileNames) : db = InitialCatalog(k, 0, {}, 0, FALSE)
  /\ InitRest

\* The sync stage alone, promote_staging_prod.py:172-237, entered as the
\* script enters it: the swap committed, both runner calls returned, no
\* transaction pending.  prod holds the promoted generation with r rows per
\* table, staging what the rebuild left there with s rows per table.
InitSync ==
  /\ \E r \in 0..MaxRows, shape \in StagingShapes, s \in 0..MaxRows :
       /\ shape = {} => s = 0
       /\ db = InitialCatalog(Cardinality(FileNames), r, shape, s, TRUE)
  /\ work = db
  /\ txs = "idle"
  /\ mpc = "idle" /\ mcaller = "promote" /\ margv = <<>> /\ minst = "" /\ applied = {} /\ mfiles = <<>>
  /\ midx = 1 /\ mcount = 0 /\ mrc = 0 /\ mexec = <<>> /\ mbegin = TRUE
  /\ prevInst = "none" /\ prevLedger = {}
  /\ ppc = "sync" /\ prc = 0 /\ pfi = Cardinality(FileNames) + 1
  /\ pstep = Len(SwapOps) + 1 /\ psi = 1
  /\ pre = db /\ pfail = "" /\ pmut = TRUE /\ pinj = FALSE /\ pswapped = TRUE
  /\ pconfirmed = TRUE /\ psync = db /\ pretry = FALSE /\ pyes = TRUE
  /\ seen = [taken |-> FALSE, view |-> [n \in Managed |-> Absent]]
  /\ cpc = "idle" /\ cinsts = <<>> /\ cidx = 1 /\ crc = 0
  /\ InitRaceIdle
  /\ astro_year = 0 /\ lcalled = FALSE /\ lres = FALSE

SyncNext ==
  \/ PromSyncStep
  \/ PromSyncCommit
  \/ PromFail
  \/ PromReturn

CleanNext ==
  \/ \E req \in CleanRequests : CleanStart(req)
  \/ \E typed \in Confirmations : CleanConfirm(typed)
  \/ CleanDrop
  \/ CleanEnsurePublic
  \/ CleanReturn

MigrateNext ==
  \/ \E argv \in CliArgvs, typed \in InstanceNames : MigCli(argv, typed)
  \/ MigEnsure
  \/ MigList
  \/ MigSkip
  \/ MigExec
  \/ MigCommit
  \/ MigRollback
  \/ MigFinish
  \/ MigReturn

\* The statements of a promotion.  PromSyncStep and PromSyncCommit are not
\* among them: they follow two runner calls that both end with code 2
\* (ParseArgs on MigrateArgv), so no run of the script reaches them.
PromoteNext ==
  \/ \E choice \in Answers : PromStart(choice)
  \/ PromRedeploy
  \/ PromCheck
  \/ PromSwapStep
  \/ PromSwapCommit
  \/ PromMigrate
  \/ PromMigrateReturn
  \/ PromFail
  \/ PromReturn
  \/ Read

\* Around a promotion the operator runs the migration runner for prod only.
ProdArgvs == {<<"--instance", "prod">>, <<"--env", "prod">>}

Next ==
  \/ \E argv \in ProdArgvs : MigCli(argv, "prod")
  \/ MigEnsure
  \/ MigList
  \/ MigSkip
  \/ MigExec
  \/ MigCommit
  \/ MigRollback
  \/ MigFinish
  \/ MigReturn
  \/ PromoteNext

Spec == Init /\ [][Next]_vars
SpecMigrate == InitMigrate /\ [][MigrateNext]_vars
SpecSync == InitSync /\ [][SyncNext]_vars
SpecClean == Init /\ [][CleanNext]_vars
SpecLeap == InitLeap /\ [][LeapNext]_vars
SpecRace == InitRace /\ [][RaceNext]_vars

\* ---------------------------------------------------------------- claims
Ledger(cat, instance) == cat[MigrationTable(instance)].vers
EffectsCommitted(cat, f, instance) == \A o \in FileObjects(f, SuffixOf(instance)) : cat[o].ex
LastExecuted == mexec[Len(mexec)]

\* C1: in every committed state a change file is in an instance's ledger if
\* and only if the objects it creates for that instance are committed.
C1_LedgerIffEffects ==
  \A i \in InstanceNames, f \in FileNames :
    (f \in Ledger(db, i)) <=> EffectsCommitted(db, f, i)

\* C1 witness: a run for dev failed at its second file, after committing its first.
C1_Witness ==
  /\ mpc = "exit" /\ mrc = 1 /\ minst = "dev"
  /\ Len(mexec) = 2
  /\ Ledger(db, "dev") = {mexec[1]}

\* C2: a run that follows a successful run for the same instance executes no
\* file and leaves the ledger as that run left it.
C2_SecondRunIsNoop ==
  (mpc # "idle" /\ mcaller = "cli" /\ minst # "" /\ minst = prevInst)
    => /\ mexec = <<>>
       /\ mcount = 0
       /\ Ledger(db, minst) = prevLedger

\* C2 witness: the second run for dev has ended with code 0 after a run that
\* left exactly the three files recorded.
C2_Witness ==
  /\ mpc = "exit" /\ mrc = 0 /\ minst = "dev" /\ prevInst = "dev"
  /\ Cardinality(prevLedger) = Cardinality(FileNames)
  /\ mexec = <<>>

\* C3: when file N fails, the pending files before N are committed and
\* recorded, N is neither recorded nor has a committed effect, no file after
\* N was executed, and nothing is left pending.
C3_FailureStopsAtN ==
  (mpc = "exit" /\ mrc = 1) =>
    LET pending == FileNames \ applied
        before == {f \in pending : LexLess(f, LastExecuted)}
    IN /\ Ledger(db, minst) = applied \cup before
       /\ \A f \in before : EffectsCommitted(db, f, minst)
       /\ \A o \in FileObjects(LastExecuted, SuffixOf(minst)) : ~db[o].ex
       /\ SeqRange(mexec) = before \cup {LastExecuted}
       /\ txs = "idle"

\* C3 witness: a run that began with nothing applied failed at its third file.
C3_Witness ==
  /\ mpc = "exit" /\ mrc = 1 /\ applied = {}
  /\ Len(mexec) = 3

\* C4: the files of a run are executed in ascending lexicographic order of
\* their names, and each execution begins with no transaction pending.
C4_AscendingAndSequential ==
  /\ \A i, j \in 1..Len(mexec) : i < j => LexLess(mexec[i], mexec[j])
  /\ mbegin

\* C4 witness: the third file is being executed, "10" having run before "2".
C4_Witness ==
  /\ mpc = "commit"
  /\ mexec = << <<1>>, <<1, 0>>, <<2>> >>

ManagedIds == {<<sch, n, "">> : sch \in Schemas, n \in Managed}
CompleteStaging(cat) == \A n \in Managed : cat[Stg(n)].ex

\* C5: when the swap transaction fails, every managed table and type is in
\* prod, staging and backup exactly as before promote was called.
C5_SwapFailureRollsBack ==
  (ppc = "exit" /\ pfail = "swap") => \A o \in ManagedIds : db[o] = pre[o]

\* C5 witness: the swap failed by itself on an enum type missing from
\* staging, after prod's objects had been moved to backup in the transaction.
C5_Witness ==
  /\ ppc = "exit" /\ pfail = "swap" /\ ~pinj
  /\ ~pre[Stg("granularity_type")].ex
  /\ pre[Pub("areas")].ex
  /\ pstep = Len(types) + Len(tables) + 1

\* C6: what a concurrent reader sees of the managed objects in public is the
\* whole set from before the swap or the whole set staging held, and if it
\* is not the former then every managed table and type is there.
C6_ReaderSeesOneGeneration ==
  seen.taken =>
    /\ seen.view = View(pre) \/ seen.view = [n \in Managed |-> pre[Stg(n)]]
    /\ seen.view # View(pre) => \A n \in Managed : seen.view[n].ex

\* C6 witness: a reader read public while the transaction had moved prod's
\* objects out and part of staging's in.
C6_Witness ==
  /\ seen.taken /\ ppc = "swap"
  /\ pstep > Len(types) + Len(tables) + Len(types) + 1
  /\ pre[Pub("areas")].ex
  /\ seen.view = View(pre)
  /\ View(work) # View(pre)

\* C7: after the swap has committed, what staging held is in prod unchanged,
\* what prod held is in backup unchanged, and staging holds no managed object.
C7_SwapMovesGenerations ==
  (pswapped /\ ppc # "idle") =>
    \A n \in Managed :
      /\ pre[Stg(n)].ex => db[Pub(n)] = pre[Stg(n)]
      /\ pre[Pub(n)].ex => db[Bak(n)] = pre[Pub(n)]
      /\ ~db[Stg(n)].ex

\* C7 witness: the swap committed with different row counts in staging.areas
\* and prod.areas, and an older backup to overwrite.
C7_Witness ==
  /\ pswapped /\ ppc = "mig_prod"
  /\ pre[Pub("areas")].ex /\ pre[Bak("areas")].ex
  /\ pre[Pub("areas")].rows # pre[Stg("areas")].rows
  /\ db[Pub("areas")].rows = pre[Stg("areas")].rows
  /\ db[Bak("areas")].rows = pre[Pub("areas")].rows
  /\ db[Pub("schema_migrations")].vers = FileNames

\* C8: when a managed table is missing from staging, promote fails before
\* any mutation: it has executed no statement that changes the catalog,
\* and the committed catalog is as it was.
C8_FailsBeforeAnyMutation ==
  (ppc \in {"failed", "exit"} /\ pfail = "check" /\ \E t \in TableNames : ~pre[Stg(t)].ex)
    => /\ ~pmut
       /\ db = pre

\* C9: a promotion of a complete staging in which no statement fails for an
\* outside reason reports success, and then every staging table exists with
\* the rows of the prod table.
C9_StagingIsCopyOfProd ==
  (ppc = "exit" /\ pconfirmed /\ ~pinj /\ CompleteStaging(pre))
    => /\ prc = 0
       /\ \A t \in TableNames :
            /\ db[Stg(t)].ex
            /\ db[Stg(t)].rows = db[Pub(t)].rows
            /\ db[Stg(t)].vers = db[Pub(t)].vers

\* C10: after the swap has committed, the staging rebuild succeeds and every
\* managed table exists again in the staging schema.
C10_StagingRebuilt ==
  (ppc = "exit" /\ pswapped /\ ~pinj)
    => /\ pfail \notin {"mig_prod", "mig_staging"}
       /\ \A t \in TableNames : db[Stg(t)].ex

\* C11: when a stage after the swap commit fails, the swap stays committed:
\* prod holds what staging held, backup holds what prod held, and the
\* promotion ends with exit code 1.
C11_PostSwapFailureKeepsSwap ==
  (ppc = "exit" /\ pswapped /\ pfail \in {"mig_prod", "mig_staging", "sync"}) =>
    /\ prc = 1
    /\ \A n \in Managed :
         /\ db[Pub(n)] = pre[Stg(n)]
         /\ pre[Pub(n)].ex => db[Bak(n)] = pre[Pub(n)]

\* C11 witness: the runner call for prod ended with code 2 after the swap
\* had committed; events is in prod with staging's rows and generation, and
\* in backup with prod's.
C11_Witness ==
  /\ ppc = "exit" /\ pswapped /\ pfail = "mig_prod" /\ mrc = 2 /\ prc = 1
  /\ pre[Pub("events")].rows # pre[Stg("events")].rows
  /\ db[Pub("events")] = pre[Stg("events")]
  /\ db[Bak("events")] = pre[Pub("events")]
  /\ db[Bak("events")].ex

\* C12: a promotion started again after one that failed once its swap had
\* committed ends with code 0, with the promoted generation still in prod
\* and every staging table rebuilt with the rows of the prod table.
C12_RerunReachesFinalState ==
  (pretry /\ pconfirmed /\ ~pinj /\ ppc = "exit") =>
    /\ prc = 0
    /\ \A n \in Managed : db[Pub(n)] = pre[Pub(n)]
    /\ \A t \in TableNames :
         /\ db[Stg(t)].ex
         /\ db[Stg(t)].rows = db[Pub(t)].rows
         /\ db[Stg(t)].vers = db[Pub(t)].vers

\* C13: a promotion executes a function-defining file only once its swap
\* has committed, and after the swap the routine in prod is defined against
\* the events table that is in prod then.
C13_RedeployAfterSwap ==
  /\ (ppc \in {"redeploy", "check"} /\ pmut) => pswapped
  /\ (pswapped /\ ppc # "idle" /\ ~pinj /\ db[Pub("get_events")].ex)
       => db[Pub("get_events")].gen = db[Pub("events")].gen

\* C14: when a statement of the sync fails, nothing of that sync is
\* committed: every staging table is as it was when the sync began, and no
\* transaction is left pending once the script has ended.
C14_SyncFailureCommitsNothing ==
  (pfail = "sync" /\ ppc \in {"failed", "exit"}) =>
    /\ \A t \in TableNames : db[Stg(t)] = psync[Stg(t)]
    /\ ppc = "exit" => (txs = "idle" /\ work = db)

\* C14 witness: the sync failed at its fourth table, after three staging
\* tables whose rows differed from prod's had been truncated and filled.
C14_Witness ==
  /\ ppc = "exit" /\ pfail = "sync" /\ psi = 4
  /\ psync[Stg("areas")].ex
  /\ psync[Stg("areas")].rows # psync[Pub("areas")].rows
  /\ db[Stg("areas")].rows = psync[Stg("areas")].rows

\* C15: after the swap has committed, backup holds each managed table and
\* type exactly as prod held it before the promotion, and holds none that
\* prod did not hold.
C15_BackupIsPreviousProd ==
  (pswapped /\ ppc # "idle") => \A n \in Managed : db[Bak(n)] = pre[Pub(n)]

\* The ledger and the objects the runner names for an instance.
OwnIds(instance) ==
  {MigrationTable(instance)} \cup {<<"public", n, SuffixOf(instance)>> : n \in Names}

C17_UnmanagedUntouched ==
  (ppc # "idle") =>
    \A u \in UnmanagedNames, sch \in Schemas :
      /\ db[<<sch, u, "">>] = pre[<<sch, u, "">>]
      /\ work[<<sch, u, "">>] = pre[<<sch, u, "">>]

\* C17 witness: the swap has committed and moved events out of staging and
\* the former events into backup, while users is in prod and in staging
\* with its rows and not in backup.
C17_Witness ==
  /\ pswapped /\ ppc = "mig_prod"
  /\ ~db[Stg("events")].ex /\ db[Bak("events")].ex
  /\ db[Pub("users")].ex /\ db[Pub("users")].rows > 0
  /\ db[Stg("users")].ex /\ db[Stg("users")].rows > 0
  /\ ~db[Bak("users")].ex

\* C18: a name outside the choices has no effect, wherever it comes from:
\* no run proceeds with it, no ledger table and no object is created for
\* it, and no file is executed for it.
C18_UnknownNameRejected ==
  /\ \A o \in ObjIds : o[3] = SuffixOf(OtherName) => ~db[o].ex
  /\ minst = OtherName => (mpc \in {"ensure", "exit", "idle"} /\ mexec = <<>>)

\* C19: where the runner has created and recorded a table for an instance
\* is where the populators, clean_slate and (for staging and prod) promote
\* look for that instance's table, and likewise for the ledger.
C19_OneLocationPerInstance ==
  \A i \in choices :
    (i = minst /\ mpc # "idle") =>
      \A f \in SeqRange(mexec) \cap Ledger(db, i) :
        \A t \in FileTables(f) :
          LET created == TransformedName(t, SuffixOf(i)) IN
            /\ db[created].ex
            /\ created = get_table_name(i, t)
            /\ created[1] = CleanSlateSchema(i)
            /\ i \in {"prod", "staging"} =>
                 /\ created = PromoteTable(i, t)
                 /\ MigrationTable(i) = PromoteTable(i, "schema_migrations")

\* C20: a step of the runner never removes an entry from a ledger; a ledger
\* changes only at the commit of a file, by exactly that file's entry, for
\* the instance of the run; and every such commit adds the entry.
C20_LedgerOnlyGrows ==
  [][\A i \in InstanceNames :
       /\ Ledger(db, i) \subseteq Ledger(db', i)
       /\ Ledger(db', i) # Ledger(db, i) =>
            /\ mpc = "commit" /\ i = minst
            /\ Ledger(db', i) = Ledger(db, i) \cup {LastExecuted}
       /\ (mpc = "commit" /\ mpc' = "loop" /\ i = minst) =>
            (LastExecuted \in Ledger(db', i) /\ LastExecuted \notin Ledger(db, i))]_vars

\* C20 witness: a run for dev that found one entry recorded by an earlier
\* run has committed one more file, and the ledger holds both entries.
C20_Witness ==
  /\ minst = "dev" /\ mpc = "loop"
  /\ Cardinality(applied) = 1 /\ mcount = 1
  /\ Ledger(db, "dev") = applied \cup {LastExecuted}
  /\ LastExecuted \notin applied

\* C21: when a run asked to reset version v for an instance has ended, v is
\* not in that instance's ledger.
C21_ResetDeletesEntry ==
  (mpc = "exit" /\ margv \in ResetArgvs) => margv[4] \notin Ledger(db, margv[2])

\* The object with this id enters (leaves) its schema in the step.
MovedIn(id) == ~work[id].ex /\ work'[id].ex
MovedOut(id) == work[id].ex /\ ~work'[id].ex

\* C22: a step of the swap that moves a managed table into backup finds
\* every enum type prod held already in backup, and a step that moves a
\* managed table into prod finds every enum type already in prod.
C22_TypesEnterFirst ==
  [][ppc = "swap" =>
       \A t \in TableNames :
         /\ (MovedOut(Pub(t)) /\ work'[Bak(t)] = work[Pub(t)]) =>
              \A ty \in TypeNames : pre[Pub(ty)].ex => work[Bak(ty)] = pre[Pub(ty)]
         /\ MovedIn(Pub(t)) =>
              \A ty \in TypeNames : work[Pub(ty)].ex /\ work[Pub(ty)] = pre[Stg(ty)]]_vars

\* C22 witness: the first table has been moved into prod, after both types,
\* and prod's former types and tables are in backup.
C22_Witness ==
  /\ ppc = "swap" /\ pstep = Len(types) + Len(tables) + Len(types) + 2
  /\ pre[Pub("granularity_type")].ex /\ pre[Pub("events")].ex
  /\ work[Pub("events")] = pre[Stg("events")]
  /\ \A ty \in TypeNames : work[Pub(ty)] = pre[Stg(ty)] /\ work[Bak(ty)] = pre[Pub(ty)]
  /\ work[Bak("events")] = pre[Pub("events")]

\* C23 as stated: a step of the swap that moves an enum type out of prod or
\* out of staging finds no table that references it still there.
C23_TypesLeaveLast ==
  [][ppc = "swap" =>
       \A ty \in TypeNames, t \in EnumTables :
         /\ MovedOut(Pub(ty)) => ~work[Pub(t)].ex
         /\ MovedOut(Stg(ty)) => ~work[Stg(t)].ex]_vars

\* C23 amended: a step of the swap that moves a managed table out of prod or
\* out of staging finds every enum type already moved out of there, and
\* nothing of the swap is committed until all of it is.
C23_TypesLeaveFirst ==
  [][ppc = "swap" =>
       /\ \A t \in TableNames :
            /\ MovedOut(Pub(t)) => \A ty \in TypeNames : ~work[Pub(ty)].ex
            /\ MovedOut(Stg(t)) => \A ty \in TypeNames : ~work[Stg(ty)].ex
       /\ db' # db => (pstep > Len(SwapOps) /\ db' = work)]_vars

\* C23 witness: events, which has columns of both types, has just left
\* staging; the types left before it, and prod's had left prod before
\* prod's events did.
C23_Witness ==
  /\ ppc = "swap" /\ pstep = Len(types) + Len(tables) + Len(types) + 2
  /\ pre[Pub("certainty_type")].ex /\ pre[Pub("events")].ex
  /\ pre[Stg("events")].ex /\ ~work[Stg("events")].ex
  /\ \A ty \in TypeNames : pre[Stg(ty)].ex /\ ~work[Stg(ty)].ex
  /\ work[Stg("areas")].ex

\* C24: a runner process that ends with code 0 has every change file
\* recorded, and one that executed a file it did not record ends with a
\* non-zero code; a confirmed promotion in which a stage failed or a
\* statement (a function-defining file included) failed ends with a
\* non-zero code, and one that ends with code 0 had no failure.
C24_ZeroOnlyOnSuccess ==
  /\ (mpc = "exit" /\ mrc = 0) => FileNames \subseteq Ledger(db, minst)
  /\ (mpc = "exit" /\ mexec # <<>> /\ LastExecuted \notin Ledger(db, minst)) => mrc # 0
  /\ (ppc = "exit" /\ (pfail # "" \/ pinj)) => prc # 0
  /\ (ppc = "exit" /\ pconfirmed /\ prc = 0) => (pfail = "" /\ ~pinj)

\* C24 witness: with a complete staging, a function-defining file failed to
\* re-apply; the promotion ended at the staging check with code 1.
C24_Witness ==
  /\ ppc = "exit" /\ pinj /\ pfail = "check" /\ prc = 1
  /\ CompleteStaging(pre)
  /\ db = pre

\* C25: a promotion whose prompt was answered with anything but yes goes
\* straight to its end: it opens no transaction and changes nothing in the
\* database, committed or pending, and exits.
C25_NoActionWithoutYes ==
  [][/\ (ppc = "idle" /\ ppc' # "idle" /\ ~pyes') =>
          (ppc' = "exit" /\ db' = db /\ work' = work /\ txs' = txs /\ txs = "idle")
     /\ (ppc # "idle" /\ ~pyes) =>
          (ppc' \in {"exit", "idle"} /\ db' = db /\ work' = work /\ txs' = txs)]_vars

\* C25 witness: with a complete staging and a populated prod, the operator
\* answered something other than yes; the script has ended and no
\* statement was executed.
C25_Witness ==
  /\ ppc = "exit" /\ ~pyes /\ ~pconfirmed /\ ~pmut /\ txs = "idle"
  /\ CompleteStaging(db) /\ db[Pub("events")].ex /\ work = db

\* The schema the documentation of clean_slate names for an instance.
DocumentedSchema(instance) == IF instance = "prod" THEN "public" ELSE instance

\* C26: when a confirmed clean_slate run has ended, no object is left in
\* public if prod was requested, nor in the schema of the same name for
\* every other requested instance.
C26_CleanSlateDrops ==
  (cpc = "exit" /\ crc = 0 /\ cidx > Len(cinsts)) =>
    \A k \in 1..Len(cinsts) :
      \A o \in ObjIds : o[1] = DocumentedSchema(cinsts[k]) => ~db[o].ex

\* y is a multiple of d.
Divides(d, y) == \E k \in (0 - MaxYear)..MaxYear : y = k * d

\* C27: is_leap_year returns true exactly for the years divisible by 4 and
\* not by 100, or divisible by 400, negative years and year 0 included.
C27_LeapYearRule ==
  lcalled =>
    (lres <=> ((Divides(4, astro_year) /\ ~Divides(100, astro_year)) \/ Divides(400, astro_year)))

\* C27 witness: the call for the year -4 (5 BC) has returned true.
C27_Witness ==
  /\ lcalled
  /\ astro_year = 0 - 4
  /\ lres

\* C28: with two runners for one instance, the ledger holds every version
\* at most once, at most one committed transaction executed each file (the
\* one that recorded it), and a runner whose INSERT met a version already
\* recorded ends with code 1 and nothing pending.
C28_NoDoubleApply ==
  /\ \A v \in FileNames : Count(rledger, v) <= 1 /\ reffects[v] = Count(rledger, v)
  /\ \A p \in Procs :
       (rdup[p] /\ rpc[p] = "exit") => (rrc[p] = 1 /\ rins[p] = NoVersion)

\* C28 witness: both runners read an empty ledger; one recorded the first
\* file, the other executed it too, met the duplicate and ended with code 1.
C28_Witness ==
  \E p \in Procs, q \in Procs :
    /\ p # q
    /\ rapplied[p] = {} /\ rapplied[q] = {}
    /\ rpc[p] = "exit" /\ rdup[p] /\ rrc[p] = 1 /\ ridx[p] = 1
    /\ rpc[q] = "loop" /\ ridx[q] > 1
    /\ Count(rledger, migration_files[1]) = 1

\* C29: while the sync runs, every table it has already copied still holds
\* in staging the rows and ledger entries of the prod table: no later
\* TRUNCATE ... CASCADE has emptied it.
C29_CopiedRowsSurvive ==
  (ppc = "sync" /\ txs # "aborted") =>
    \A k \in 1..(psi - 1) :
      /\ Visible[Stg(sync_order[k])].rows = db[Pub(sync_order[k])].rows
      /\ Visible[Stg(sync_order[k])].vers = db[Pub(sync_order[k])].vers

\* C29 witness: all five tables have been copied; areas, truncated first
\* with its cascade, and period_areas, which references it, hold prod's
\* rows, which are not what staging held before.
C29_Witness ==
  /\ ppc = "sync" /\ psi = Len(sync_order) + 1
  /\ work[Stg("areas")].rows > 0
  /\ work[Stg("period_areas")].rows = db[Pub("period_areas")].rows
  /\ work[Stg("period_areas")].rows > 0
  /\ psync[Stg("period_areas")].rows # work[Stg("period_areas")].rows

\* C30: a confirmed promotion of a complete staging in which no statement
\* fails for an outside reason commits its swap whatever prod holds; then
\* every staging object is in prod, every object prod held is in backup,
\* and where prod held none backup is as it was.
C30_SwapCommitsOnPartialProd ==
  (pconfirmed /\ CompleteStaging(pre) /\ ~pinj) =>
    /\ pfail \notin {"check", "swap"}
    /\ ppc \in {"failed", "exit"} => pswapped
    /\ (pswapped /\ ppc # "idle") =>
         \A n \in Managed :
           /\ db[Pub(n)] = pre[Stg(n)]
           /\ db[Bak(n)] = IF pre[Pub(n)].ex THEN pre[Pub(n)] ELSE pre[Bak(n)]

\* C30 witness: prod held areas but neither events nor the enum types when
\* the promotion began; the swap committed, events and the types are in
\* prod, areas is in backup and events is not.
C30_Witness ==
  /\ pswapped /\ ppc = "mig_prod" /\ ~pinj
  /\ pre[Pub("areas")].ex /\ ~pre[Pub("events")].ex /\ ~pre[Pub("granularity_type")].ex
  /\ db[Pub("events")] = pre[Stg("events")] /\ db[Pub("events")].ex
  /\ db[Pub("granularity_type")].ex
  /\ db[Bak("areas")] = pre[Pub("areas")]
  /\ ~db[Bak("events")].ex

====
